---- MODULE Spec2Model ----
(***************************************************************************)
(* A model of uqbar's documentation tree: ModuleDocumenter (construction,  *)
(* member classification, page rendering) and SummarizingRootDocumenter    *)
(* (recursive summary rendering).                                          *)
(*                                                                         *)
(* Python strings are sequences of one-character strings; a literal        *)
(* fragment of a format string is kept as one element.  A rendered         *)
(* document is the element sequence that '\n'.join produces, the newline   *)
(* being the element NL.                                                   *)
(***************************************************************************)
EXTENDS Integers, Sequences, FiniteSets, TLC

VARIABLES nodes, req, calls, err, root

vars == <<nodes, req, calls, err, root>>

(***************************************************************************)
(* Bounds                                                                  *)
(***************************************************************************)
\* number of ModuleDocumenter objects constructed in one run
MaxNodes == 3
\* length of a module_documenters argument
MaxChildren == 2

None == "None"

\* an optional argument: left at its default None, or given
Default == [given |-> FALSE]
Given(value) == [given |-> TRUE, value |-> value]

\* number of documenters constructed when only members are looked at
MaxModules == 1
\* number of documenters constructed when tables of contents are looked at
MaxTocNodes == 2

(***************************************************************************)
(* Python str helpers                                                      *)
(***************************************************************************)
\* the characters in code point order, which is the order of str.__lt__
CharOrder ==
  << "-", ".", "/",
     "A", "B", "C", "D", "E", "F", "G", "H", "I", "J", "K", "L", "M",
     "N", "O", "P", "Q", "R", "S", "T", "U", "V", "W", "X", "Y", "Z",
     "_",
     "a", "b", "c", "d", "e", "f", "g", "h", "i", "j", "k", "l", "m",
     "n", "o", "p", "q", "r", "s", "t", "u", "v", "w", "x", "y", "z" >>

Ord(c) == CHOOSE i \in 1..Len(CharOrder) : CharOrder[i] = c

RECURSIVE StrLess(_, _)
\* s < t for two str
StrLess(s, t) ==
  IF t = <<>> THEN FALSE
  ELSE IF s = <<>> THEN TRUE
  ELSE IF Head(s) = Head(t) THEN StrLess(Tail(s), Tail(t))
  ELSE Ord(Head(s)) < Ord(Head(t))

\* s[n:]
SliceFrom(s, n) == IF n >= Len(s) THEN <<>> ELSE SubSeq(s, n + 1, Len(s))

\* s.startswith(c) for a one-character c
StartsWith(s, c) == Len(s) > 0 /\ s[1] = c

RECURSIVE Split(_, _)
\* s.split(sep) for a one-character sep: the list of the pieces
Split(s, sep) ==
  IF \A i \in 1..Len(s) : s[i] # sep THEN <<s>>
  ELSE LET k == CHOOSE i \in 1..Len(s) :
                  s[i] = sep /\ \A j \in 1..(i - 1) : s[j] # sep
       IN  <<SubSeq(s, 1, k - 1)>> \o Split(SliceFrom(s, k), sep)

RECURSIVE Replace(_, _, _)
\* s.replace(old, new) for a one-character old
Replace(s, old, new) ==
  IF s = <<>> THEN <<>>
  ELSE (IF Head(s) = old THEN new ELSE <<Head(s)>>) \o Replace(Tail(s), old, new)

\* s.rpartition('.')[-1]
RPartitionLast(s) == LET parts == Split(s, ".") IN parts[Len(parts)]

NL == "\n"

\* the character ` of the rubric line
BQ == "backquote"

RECURSIVE JoinLines(_)
\* '\n'.join(lines)
JoinLines(lines) ==
  IF lines = <<>> THEN <<>>
  ELSE IF Len(lines) = 1 THEN lines[1]
  ELSE lines[1] \o <<NL>> \o JoinLines(Tail(lines))

\* '=' * n
Repeat(c, n) == [i \in 1..n |-> c]

RECURSIVE Sorted(_)
\* sorted(S) for a collection of distinct str
Sorted(S) ==
  IF S = {} THEN <<>>
  ELSE LET m == CHOOSE s \in S : \A t \in S : s = t \/ StrLess(s, t)
       IN  <<m>> \o Sorted(S \ {m})

(***************************************************************************)
(* The importable modules                                                  *)
(***************************************************************************)
PathA  == <<"a">>
PathAB == <<"a", ".", "b">>
PathAT == <<"a", ".", "T">>
PathAR == <<"a", ".", "R">>
PathAP == <<"a", ".", "p">>
PathX  == <<"x">>

\* a class or function object: its __module__ and __name__
Obj(kind, module, name) == [kind |-> kind, module |-> module, name |-> name]

ClassT == Obj("class", PathAT, <<"T">>)
FuncZ  == Obj("function", PathAB, <<"z">>)

\* sys.modules after import: package_path -> module object.  attrs maps each
\* name of dir(module) to the object getattr returns.
\*   a    a package with a function, a private function and a plain value
\*   a.b  a module whose function z is bound to two names, with two classes
\*        of its own and the class of a.T imported into it
\*   a.T  a module holding the class T and a private function
\*   a.R  a module holding nothing but the class imported from a.T
\*   a.p  an empty package
Modules ==
  (PathA :> [is_package |-> TRUE,
             attrs |-> (<<"_", "h">> :> Obj("function", PathA, <<"_", "h">>))
                    @@ (<<"f">> :> Obj("function", PathA, <<"f">>))
                    @@ (<<"v">> :> Obj("value", <<>>, <<>>))])
  @@ (PathAB :> [is_package |-> FALSE,
                 attrs |-> (<<"B">> :> FuncZ)
                        @@ (<<"C">> :> Obj("class", PathAB, <<"C">>))
                        @@ (<<"T">> :> ClassT)
                        @@ (<<"g">> :> FuncZ)
                        @@ (<<"m">> :> Obj("class", PathAB, <<"m">>))])
  @@ (PathAT :> [is_package |-> FALSE,
                 attrs |-> (<<"T">> :> ClassT)
                        @@ (<<"_", "p">> :> Obj("function", PathAT, <<"_", "p">>))])
  @@ (PathAR :> [is_package |-> FALSE,
                 attrs |-> (<<"T">> :> ClassT)])
  @@ (PathAP :> [is_package |-> TRUE,
                 attrs |-> << >>])

ImportError == "ImportError"

\* what stands in for the module of a client that was never imported; no
\* documenter that __init__ lets through has such a client
NoModule == [is_package |-> FALSE, attrs |-> << >>]

\* import_module with a failed import swallowed: an empty module stands in
ImportAnything(package_path) == [raised |-> None, client |-> package_path]

\* importlib.import_module(package_path)
ImportModule(package_path) ==
  IF package_path \in DOMAIN Modules
  THEN [raised |-> None, client |-> package_path]
  ELSE [raised |-> ImportError, client |-> None]

\* the module object behind a client handle
ModuleOf(client) == IF client \in DOMAIN Modules THEN Modules[client] ELSE NoModule

\* dir(client)
Dir(client) == DOMAIN ModuleOf(client).attrs

\* getattr(client, name)
GetAttr(client, name) == ModuleOf(client).attrs[name]

(***************************************************************************)
(* Member documenter classes                                               *)
(***************************************************************************)
ClassDocumenter    == "ClassDocumenter"
FunctionDocumenter == "FunctionDocumenter"
\* a caller-supplied MemberDocumenter subclass that also documents
\* classes and functions imported from another module
ImportedDocumenter == "ImportedDocumenter"

SectionClasses     == <<"C", "l", "a", "s", "s", "e", "s">>
SectionFunctions   == <<"F", "u", "n", "c", "t", "i", "o", "n", "s">>
SectionDocumenters == <<"D", "o", "c", "u", "m", "e", "n", "t", "e", "r", "s">>

\* class_.validate_client(client, package_path)
ValidateClient(class_, client, package_path) ==
  CASE class_ = ClassDocumenter ->
         client.kind = "class" /\ client.module = package_path
    [] class_ = FunctionDocumenter ->
         client.kind = "function" /\ client.module = package_path
    [] class_ = ImportedDocumenter ->
         client.kind \in {"class", "function"}

\* class_(path): the member documenter, with its documentation_section
NewMemberDocumenter(class_, path) ==
  [class_ |-> class_,
   package_path |-> path,
   documentation_section |->
     CASE class_ = ClassDocumenter -> SectionClasses
       [] class_ = FunctionDocumenter -> SectionFunctions
       [] class_ = ImportedDocumenter -> SectionDocumenters]

\* str(member documenter): one directive line naming the member
MemberStr(documenter) ==
  << CASE documenter.class_ = ClassDocumenter -> ".. autoclass:: "
       [] documenter.class_ = FunctionDocumenter -> ".. autofunction:: "
       [] documenter.class_ = ImportedDocumenter -> ".. autodata:: " >>
  \o RPartitionLast(documenter.package_path)

(***************************************************************************)
(* ModuleDocumenter                                                        *)
(***************************************************************************)
ModuleDocumenter == "ModuleDocumenter"
\* a subclass of ModuleDocumenter that inherits __init__, __str__ and
\* _build_toc
SubclassDocumenter == "SubclassDocumenter"
RootDocumenter == "RootDocumenter"

\* isinstance(documenter, class_) for the documenter classes above
IsInstance(documenter, class_) ==
  \/ documenter.type = class_
  \/ class_ = ModuleDocumenter /\ documenter.type = SubclassDocumenter

ValidateCall(class_, i, name) ==
  [op |-> "validate_client", class_ |-> class_, index |-> i, name |-> name]

ConstructCall(class_, i, name) ==
  [op |-> "construct", class_ |-> class_, index |-> i, name |-> name]

\* '{}.{}'.format(client.__module__, client.__name__)
MemberPath(client) == client.module \o <<".">> \o client.name

RECURSIVE TryClassesNoBreak(_, _, _, _, _)
\* the inner loop without its break: every recognizing class constructs
TryClassesNoBreak(classes, i, client, name, package_path) ==
  IF i > Len(classes) THEN [documenters |-> <<>>, calls |-> <<>>]
  ELSE LET class_ == classes[i]
           rest == TryClassesNoBreak(classes, i + 1, client, name, package_path)
       IN  IF ValidateClient(class_, client, package_path)
           THEN [documenters |->
                   <<NewMemberDocumenter(class_, MemberPath(client))>>
                   \o rest.documenters,
                 calls |-> <<ValidateCall(class_, i, name),
                             ConstructCall(class_, i, name)>> \o rest.calls]
           ELSE [documenters |-> rest.documenters,
                 calls |-> <<ValidateCall(class_, i, name)>> \o rest.calls]

RECURSIVE TryClasses(_, _, _, _, _)
\* _populate, the loop over member_documenter_classes from position i on for
\* one member: the documenters appended, and the classifier calls made
TryClasses(classes, i, client, name, package_path) ==
  IF i > Len(classes) THEN [documenters |-> <<>>, calls |-> <<>>]
  ELSE LET class_ == classes[i]
       IN  IF ValidateClient(class_, client, package_path)
           THEN [documenters |->
                   <<NewMemberDocumenter(class_, MemberPath(client))>>,
                 calls |-> <<ValidateCall(class_, i, name),
                             ConstructCall(class_, i, name)>>]
           ELSE LET rest == TryClasses(classes, i + 1, client, name, package_path)
                IN  [documenters |-> rest.documenters,
                     calls |-> <<ValidateCall(class_, i, name)>> \o rest.calls]

RECURSIVE PopulateNames(_, _)
\* _populate, the loop over the sorted names from `names` on
PopulateNames(self, names) ==
  IF names = <<>> THEN [documenters |-> <<>>, calls |-> <<>>]
  ELSE LET name == Head(names)
           rest == PopulateNames(self, Tail(names))
       IN  IF StartsWith(name, "_") /\ ~self.document_private_members
           THEN rest
           ELSE LET one == TryClasses(self.member_documenter_classes, 1,
                                      GetAttr(self.client, name), name,
                                      self.package_path)
                IN  [documenters |-> one.documenters \o rest.documenters,
                     calls |-> one.calls \o rest.calls]

\* ModuleDocumenter._populate
Populate(self) == PopulateNames(self, Sorted(Dir(self.client)))

\* ModuleDocumenter.is_package
is_package(self) == ModuleOf(self.client).is_package

\* ModuleDocumenter.is_nominative
is_nominative(self) ==
  IF is_package(self) \/ Len(self.member_documenters) # 1 THEN FALSE
  ELSE LET parts == Split(self.member_documenters[1].package_path, ".")
       IN  parts[Len(parts)] = parts[Len(parts) - 1]

\* ModuleDocumenter.package_name
package_name(self) ==
  IF \E i \in 1..Len(self.package_path) : self.package_path[i] = "."
  THEN RPartitionLast(self.package_path)
  ELSE self.package_path

\* ModuleDocumenter.reference_name
reference_name(self) ==
  Replace(Replace(self.package_path, "_", <<"-">>), ".", <<"-", "-">>)

RECURSIVE GroupBySection(_, _)
\* the dict filled by result.setdefault(section, []).append(documenter), as
\* its items in insertion order, `items` being the dict so far
GroupBySection(documenters, items) ==
  IF documenters = <<>> THEN items
  ELSE LET documenter == Head(documenters)
           section == documenter.documentation_section
           known == \E i \in 1..Len(items) : items[i][1] = section
       IN  GroupBySection(
             Tail(documenters),
             IF known
             THEN [i \in 1..Len(items) |->
                     IF items[i][1] = section
                     THEN <<section, Append(items[i][2], documenter)>>
                     ELSE items[i]]
             ELSE Append(items, <<section, <<documenter>>>>))

\* the items left in insertion order
UnsortedItems(items) == items

RECURSIVE SortedItems(_)
\* sorted(result.items()): the keys of a dict are distinct, so the order of
\* the (section, documenters) tuples is the order of the sections
SortedItems(items) ==
  IF items = <<>> THEN <<>>
  ELSE LET k == CHOOSE i \in 1..Len(items) :
                  \A j \in 1..Len(items) :
                    i = j \/ StrLess(items[i][1], items[j][1])
       IN  <<items[k]>>
           \o SortedItems([i \in 1..(Len(items) - 1) |->
                             IF i < k THEN items[i] ELSE items[i + 1]])

\* ModuleDocumenter.member_documenters_by_section
member_documenters_by_section(self) ==
  SortedItems(GroupBySection(self.member_documenters, <<>>))

\* the documenter objects a tuple of references holds
Documenters(ids) == [i \in 1..Len(ids) |-> nodes[ids[i]]]

\* ModuleDocumenter._build_preamble
BuildPreamble(self) ==
  << <<".. _">> \o reference_name(self) \o <<":">>,
     <<>>,
     package_name(self),
     Repeat("=", Len(package_name(self))),
     <<>>,
     <<".. automodule:: ">> \o self.package_path,
     <<>>,
     <<".. currentmodule:: ">> \o self.package_path >>

\* _build_toc, one toctree line
TocEntry(self, module_documenter) ==
  LET path == SliceFrom(module_documenter.package_path,
                        Len(self.package_path) + 1)
  IN  <<"   ">> \o (IF is_package(module_documenter)
                    THEN path \o <<"/index">>
                    ELSE path)

\* ModuleDocumenter._build_toc
BuildToc(self, documenters) ==
  IF documenters = <<>> THEN <<>>
  ELSE LET module_documenters ==
             SelectSeq(documenters, LAMBDA d : IsInstance(d, self.type))
       IN  << <<>>, <<".. toctree::">>, <<>> >>
           \o [i \in 1..Len(module_documenters) |->
                 TocEntry(self, module_documenters[i])]

RECURSIVE MemberBlocks(_)
\* ModuleDocumenter.__str__, the loop over the member documenters
MemberBlocks(documenters) ==
  IF documenters = <<>> THEN <<>>
  ELSE << <<>>, MemberStr(Head(documenters)) >> \o MemberBlocks(Tail(documenters))

\* ModuleDocumenter.__str__
ModuleStr(self) ==
  JoinLines(BuildPreamble(self)
            \o BuildToc(self, Documenters(self.module_documenters))
            \o MemberBlocks(self.member_documenters))

(***************************************************************************)
(* SummarizingRootDocumenter                                               *)
(***************************************************************************)
\* RootDocumenter.title
Title == <<"A", "P", "I">>

RECURSIVE RecurseLeaves(_)
\* _recurse that does not descend below a nominative documenter
RecurseLeaves(documenter) ==
  LET RECURSIVE Children(_)
      Children(ids) ==
        IF ids = <<>> THEN <<>>
        ELSE RecurseLeaves(nodes[Head(ids)]) \o Children(Tail(ids))
  IN  IF IsInstance(documenter, ModuleDocumenter)
      THEN IF is_nominative(documenter) THEN <<>>
           ELSE << <<documenter, member_documenters_by_section(documenter)>> >>
                \o Children(documenter.module_documenters)
      ELSE Children(documenter.module_documenters)

RECURSIVE Recurse(_)
\* SummarizingRootDocumenter._recurse
Recurse(documenter) ==
  LET RECURSIVE Children(_)
      Children(ids) ==
        IF ids = <<>> THEN <<>>
        ELSE Recurse(nodes[Head(ids)]) \o Children(Tail(ids))
  IN  (IF IsInstance(documenter, ModuleDocumenter) /\ ~is_nominative(documenter)
       THEN << <<documenter, member_documenters_by_section(documenter)>> >>
       ELSE <<>>)
      \o Children(documenter.module_documenters)

\* SummarizingRootDocumenter.__str__, one line of the hidden toctree
RootTocEntry(documenter) ==
  LET path == Replace(documenter.package_path, ".", <<"/">>)
  IN  <<"   ">> \o (IF is_package(documenter) THEN path \o <<"/index">> ELSE path)

RECURSIVE AutosummaryLines(_)
\* SummarizingRootDocumenter.__str__, the loop over documenters_by_section
AutosummaryLines(documenters_by_section) ==
  IF documenters_by_section = <<>> THEN <<>>
  ELSE LET section_name == Head(documenters_by_section)[1]
           documenters == Head(documenters_by_section)[2]
       IN  << <<>>,
              <<"-  ">> \o section_name,
              <<>>,
              <<"   .. autosummary::">>,
              <<"      :nosignatures:">>,
              <<>> >>
           \o [i \in 1..Len(documenters) |->
                 <<"      ~">> \o documenters[i].package_path]
           \o AutosummaryLines(Tail(documenters_by_section))

RECURSIVE SectionLines(_)
\* SummarizingRootDocumenter.__str__, the loop over self._recurse(self)
SectionLines(recursed) ==
  IF recursed = <<>> THEN <<>>
  ELSE LET module_documenter == Head(recursed)[1]
           documenters_by_section == Head(recursed)[2]
       IN  << <<>>,
              <<".. raw:: html">>,
              <<>>,
              <<"   <hr/>">>,
              <<>>,
              <<".. rubric:: :ref:", BQ>> \o module_documenter.package_path
                \o <<" <">> \o reference_name(module_documenter) \o <<">", BQ>>,
              <<"   :class: section-header">> >>
           \o AutosummaryLines(documenters_by_section)
           \o SectionLines(Tail(recursed))

\* SummarizingRootDocumenter.__str__, as the list before the join
RootLines(self) ==
  << Title, Repeat("=", Len(Title)), <<>>,
     <<".. toctree::">>, <<"   :hidden:">>, <<>> >>
  \o [i \in 1..Len(self.module_documenters) |->
        RootTocEntry(nodes[self.module_documenters[i]])]
  \o SectionLines(Recurse(self))

\* SummarizingRootDocumenter.__str__
RootStr(self) == JoinLines(RootLines(self))

(***************************************************************************)
(* Operations                                                              *)
(***************************************************************************)
Init ==
  /\ nodes = <<>>
  /\ req = <<>>
  /\ calls = <<>>
  /\ err = None
  /\ root = <<>>

\* ModuleDocumenter.__init__ (of the class `type`, which inherits it)
Construct(package_path, document_private_members, member_documenter_classes, module_documenters, type) ==
  LET imported == ImportModule(package_path)
      self == [id |-> Len(nodes) + 1,
               type |-> type,
               package_path |-> package_path,
               client |-> imported.client,
               document_private_members |-> document_private_members,
               member_documenter_classes |->
                 IF member_documenter_classes.given
                 THEN member_documenter_classes.value
                 ELSE <<ClassDocumenter, FunctionDocumenter>>,
               module_documenters |->
                 IF module_documenters.given
                 THEN module_documenters.value
                 ELSE <<>>]
      populated == Populate(self)
  IN  /\ req' = <<[package_path |-> package_path,
                 document_private_members |-> document_private_members,
                 member_documenter_classes |-> member_documenter_classes,
                 module_documenters |-> module_documenters,
                 type |-> type]>>
      /\ IF imported.raised # None
         THEN /\ err' = imported.raised
              /\ calls' = <<>>
              /\ UNCHANGED nodes
         ELSE /\ err' = None
              /\ calls' = populated.calls
              /\ nodes' = Append(nodes,
                     [f \in DOMAIN self \cup {"member_documenters"} |->
                        IF f = "member_documenters" THEN populated.documenters
                        ELSE self[f]])
      /\ UNCHANGED root

\* SummarizingRootDocumenter(module_documenters=...)
NewRoot(module_documenters) ==
  /\ root' = <<[id |-> 0, type |-> RootDocumenter,
               module_documenters |-> module_documenters]>>
  /\ UNCHANGED <<nodes, req, calls, err>>

(***************************************************************************)
(* Inputs                                                                  *)
(***************************************************************************)
AllPaths == {PathA, PathAB, PathAT, PathAR, PathAP, PathX}

\* the member_documenter_classes arguments tried
ClassLists ==
  { Default,
    Given(<<>>),
    Given(<<ImportedDocumenter>>),
    Given(<<ImportedDocumenter, ClassDocumenter>>),
    Given(<<ClassDocumenter, ImportedDocumenter, FunctionDocumenter>>) }

\* the documenters that are no documenter's child yet
Orphans ==
  { i \in 1..Len(nodes) :
      \A j \in 1..Len(nodes) :
        \A k \in 1..Len(nodes[j].module_documenters) :
          nodes[j].module_documenters[k] # i }

\* the tuples of up to MaxChildren distinct members of S
Tuples(S) ==
  { t \in UNION { [1..n -> S] : n \in 0..MaxChildren } :
      \A i, j \in 1..Len(t) : i # j => t[i] # t[j] }

\* a module_documenters argument: omitted, or a non-empty list over S
ChildLists(S) == {Default} \cup { Given(t) : t \in Tuples(S) \ {<<>>} }

\* member classification: one documenter at a time, any classifier list;
\* at most MaxModules documenters are constructed (a construction that
\* fails constructs none)
NextMembers ==
  \E package_path \in AllPaths \ {PathAP}, private \in BOOLEAN,
     classes \in ClassLists :
    /\ Len(nodes) < MaxModules \/ ImportModule(package_path).raised # None
    /\ Construct(package_path, private, classes, Default, ModuleDocumenter)

SpecMembers == Init /\ [][NextMembers]_vars

\* tree composition: default classifiers, children chosen among the
\* documenters built so far, then a root over some of them
NextTree ==
  \/ \E package_path \in {PathA, PathAB, PathAT},
        module_documenters \in ChildLists(Orphans) :
       /\ root = <<>>
       /\ Len(nodes) < MaxNodes
       /\ Construct(package_path, FALSE, Default, module_documenters,
                    ModuleDocumenter)
  \/ \E module_documenters \in Tuples(Orphans) :
       /\ root = <<>>
       /\ NewRoot(module_documenters)

SpecTree == Init /\ [][NextTree]_vars

\* tables of contents: parent and child of either documenter class
NextToc ==
  \E package_path \in AllPaths,
     module_documenters \in ChildLists(1..Len(nodes)),
     type \in {ModuleDocumenter, SubclassDocumenter} :
    /\ Len(nodes) < MaxTocNodes
    /\ Construct(package_path, FALSE, Default, module_documenters, type)

SpecToc == Init /\ [][NextToc]_vars

(***************************************************************************)
(* Reading a rendered document and a tree, for the properties below        *)
(***************************************************************************)
\* the lines of a rendered document
Lines(text) == Split(text, NL)

\* the final dotted segment of a path
LastSegment(path) == LET parts == Split(path, ".") IN parts[Len(parts)]

\* the documenter constructed last
Last == nodes[Len(nodes)]

RECURSIVE PreOrder(_)
\* the nodes below the documenter with these children, depth first, each
\* before its own children
PreOrder(ids) ==
  IF ids = <<>> THEN <<>>
  ELSE <<Head(ids)>> \o PreOrder(nodes[Head(ids)].module_documenters)
                     \o PreOrder(Tail(ids))

\* the number of positions of seq that hold x
Count(seq, x) == Cardinality({i \in 1..Len(seq) : seq[i] = x})

\* the rubric line that names a documenter
RubricLine(n) ==
  <<".. rubric:: :ref:", BQ>> \o n.package_path \o <<" <">>
  \o Replace(Replace(n.package_path, "_", <<"-">>), ".", <<"-", "-">>)
  \o <<">", BQ>>

IsRubric(line) == Len(line) > 0 /\ line[1] = ".. rubric:: :ref:"
IsRule(line) == line = <<"   <hr/>">>
IsBullet(line) == Len(line) > 0 /\ line[1] = "-  "
IsEntry(line) == Len(line) > 0 /\ line[1] = "      ~"

\* the section names of a documenter's members, in ascending order
SectionNames(n) ==
  Sorted({n.member_documenters[i].documentation_section :
            i \in 1..Len(n.member_documenters)})

RECURSIVE Flatten(_)
Flatten(seqs) == IF seqs = <<>> THEN <<>> ELSE Head(seqs) \o Flatten(Tail(seqs))

\* the bullet and entry lines a documenter's members are to give
ExpectedMemberLines(n) ==
  Flatten([k \in 1..Len(SectionNames(n)) |->
            LET members == SelectSeq(n.member_documenters,
                             LAMBDA d : d.documentation_section = SectionNames(n)[k])
            IN  << <<"-  ">> \o SectionNames(n)[k] >>
                \o [i \in 1..Len(members) |->
                      <<"      ~">> \o members[i].package_path]])

\* the toctree entries of a rendered page: the lines after the directive
\* and its blank line, up to the next blank line
TocEntries(lines) ==
  IF \A i \in 1..Len(lines) : lines[i] # <<".. toctree::">> THEN <<>>
  ELSE LET t == CHOOSE i \in 1..Len(lines) : lines[i] = <<".. toctree::">>
           rest == SliceFrom(lines, t + 1)
           stop == IF \E i \in 1..Len(rest) : rest[i] = <<>>
                   THEN (CHOOSE i \in 1..Len(rest) :
                           rest[i] = <<>> /\ \A j \in 1..(i - 1) : rest[j] # <<>>)
                   ELSE Len(rest) + 1
       IN  SubSeq(rest, 1, stop - 1)

HasPrefix(s, prefix) ==
  Len(s) >= Len(prefix) /\ SubSeq(s, 1, Len(prefix)) = prefix

\* child is parent, a dot, and one more segment
ExtendsByOneSegment(child, parent) ==
  LET segment == SliceFrom(child, Len(parent) + 1)
  IN  /\ HasPrefix(child, parent \o <<".">>)
      /\ segment # <<>>
      /\ \A c \in 1..Len(segment) : segment[c] # "."

\* the children of a node all lie one segment below it
ChildrenBelow(self) ==
  \A k \in 1..Len(self.module_documenters) :
    ExtendsByOneSegment(nodes[self.module_documenters[k]].package_path,
                        self.package_path)

(***************************************************************************)
(* C1  is_nominative is true exactly when the node is not a package, has   *)
(* exactly one member documenter, and the final segment of that member's   *)
(* package_path equals the final segment of the node's own package_path,   *)
(* also for a member imported from another module.                         *)
(***************************************************************************)
C1_NominativeIffSoleMemberNamedAfterNode ==
  \A i \in 1..Len(nodes) :
    is_nominative(nodes[i])
    <=> /\ ~is_package(nodes[i])
        /\ Len(nodes[i].member_documenters) = 1
        /\ LastSegment(nodes[i].member_documenters[1].package_path)
             = LastSegment(nodes[i].package_path)

(***************************************************************************)
(* C2  The summary renders one rule and one rubric per documenter of the   *)
(* depth-first pre-order of the tree below the root with the nominative    *)
(* documenters removed: every other documenter once, no nominative one,    *)
(* never the root, and what lies below a nominative documenter at its      *)
(* pre-order position.                                                     *)
(***************************************************************************)
C2_SummaryIsPreOrderWithoutNominative ==
  root # <<>> =>
    LET recursed == Recurse(root[1])
        rendered == [k \in 1..Len(recursed) |-> recursed[k][1].id]
        order == PreOrder(root[1].module_documenters)
        expected == SelectSeq(order, LAMBDA i : ~is_nominative(nodes[i]))
        lines == Lines(RootStr(root[1]))
    IN  /\ rendered = expected
        /\ \A k \in 1..Len(recursed) :
             /\ recursed[k][1] = nodes[rendered[k]]
             /\ recursed[k][2] = member_documenters_by_section(nodes[rendered[k]])
        /\ \A i \in 1..Len(nodes) :
             Count(rendered, i) =
               IF Count(order, i) > 0 /\ ~is_nominative(nodes[i]) THEN 1 ELSE 0
        /\ Count(rendered, 0) = 0
        /\ SelectSeq(lines, IsRubric)
             = [k \in 1..Len(expected) |-> RubricLine(nodes[expected[k]])]
        /\ Len(SelectSeq(lines, IsRule)) = Len(expected)

\* a root over a nominative documenter with a child of its own that is
\* rendered, next to a second rendered documenter
C2_Witness ==
  /\ root # <<>>
  /\ \E i \in 1..Len(nodes) :
       /\ Count(PreOrder(root[1].module_documenters), i) = 1
       /\ is_nominative(nodes[i])
       /\ \E k \in 1..Len(nodes[i].module_documenters) :
            ~is_nominative(nodes[nodes[i].module_documenters[k]])
  /\ Len(Recurse(root[1])) >= 2

(***************************************************************************)
(* C3  The toctree block of a page with children has exactly one entry per *)
(* supplied child, whatever the documenter classes of parent and child, in *)
(* the order supplied; the entry is the child's package_path without the   *)
(* parent's prefix, followed by /index exactly when the child is a         *)
(* package.  (Stated for the nodes whose children lie one segment below    *)
(* them.)                                                                  *)
(***************************************************************************)
C3_TocHasOneEntryPerChild ==
  \A i \in 1..Len(nodes) :
    LET self == nodes[i]
        children == Documenters(self.module_documenters)
        entries == TocEntries(Lines(ModuleStr(self)))
        prefix == self.package_path \o <<".">>
    IN  (children # <<>> /\ ChildrenBelow(self)) =>
          /\ Len(entries) = Len(children)
          /\ \A k \in 1..Len(children) :
                 entries[k] =
                   <<"   ">>
                   \o SliceFrom(children[k].package_path, Len(prefix))
                   \o (IF is_package(children[k]) THEN <<"/index">> ELSE <<>>)

(***************************************************************************)
(* C4  While a node's members are classified, a name starting with '_' is  *)
(* skipped unless document_private_members is set; for every other name    *)
(* the classifiers are asked in the order supplied and the first that      *)
(* recognizes the member constructs its one documenter: none after it is   *)
(* asked or constructs, a name gives at most one documenter, and a member  *)
(* no classifier recognizes gives none and no error.                       *)
(***************************************************************************)
C4_FirstRecognizingClassifierWins ==
  (req # <<>> /\ err = None) =>
    LET self == Last
        classes == self.member_documenter_classes
        CallsFor(name) == SelectSeq(calls, LAMBDA c : c.name = name)
        Skipped(name) == name[1] = "_" /\ ~self.document_private_members
        Recognizers(name) ==
          { i \in 1..Len(classes) :
              ValidateClient(classes[i], GetAttr(self.client, name),
                             self.package_path) }
        First(name) ==
          CHOOSE i \in Recognizers(name) : \A j \in Recognizers(name) : i <= j
        Made == SelectSeq(calls, LAMBDA c : c.op = "construct")
    IN  /\ \A k \in 1..Len(calls) : calls[k].name \in Dir(self.client)
        /\ \A name \in Dir(self.client) :
             /\ Skipped(name) => CallsFor(name) = <<>>
             /\ (~Skipped(name) /\ Recognizers(name) = {}) =>
                  CallsFor(name) =
                    [i \in 1..Len(classes) |-> ValidateCall(classes[i], i, name)]
             /\ (~Skipped(name) /\ Recognizers(name) # {}) =>
                  CallsFor(name) =
                    [i \in 1..First(name) |-> ValidateCall(classes[i], i, name)]
                    \o <<ConstructCall(classes[First(name)], First(name), name)>>
        /\ Len(self.member_documenters) = Len(Made)
        /\ \A k \in 1..Len(Made) :
             /\ self.member_documenters[k].class_ = Made[k].class_
             /\ self.member_documenters[k].package_path
                  = MemberPath(GetAttr(self.client, Made[k].name))

\* one construction that skipped a private name, met a member no classifier
\* recognizes, and met a member two of its classifiers recognize
C4_Witness ==
  /\ req # <<>>
  /\ err = None
  /\ \E name \in Dir(Last.client) :
       name[1] = "_" /\ ~Last.document_private_members
  /\ \E name \in Dir(Last.client) :
       /\ name[1] # "_"
       /\ \A i \in 1..Len(Last.member_documenter_classes) :
            ~ValidateClient(Last.member_documenter_classes[i],
                            GetAttr(Last.client, name), Last.package_path)
  /\ \E name \in Dir(Last.client) :
       \E i, j \in 1..Len(Last.member_documenter_classes) :
         /\ i < j
         /\ ValidateClient(Last.member_documenter_classes[i],
                           GetAttr(Last.client, name), Last.package_path)
         /\ ValidateClient(Last.member_documenter_classes[j],
                           GetAttr(Last.client, name), Last.package_path)
         /\ \E k \in 1..Len(calls) : calls[k] = ConstructCall(
                           Last.member_documenter_classes[i], i, name)

(***************************************************************************)
(* C5  The member documenters of a node are stored in lexicographic order  *)
(* of their declaring names (the final segments of their package_paths),   *)
(* also when a member is found under another name than it was declared     *)
(* with.                                                                   *)
(***************************************************************************)
C5_MembersOrderedByDeclaringName ==
  \A i \in 1..Len(nodes) :
    \A k, l \in 1..Len(nodes[i].member_documenters) :
      k < l =>
        ~StrLess(LastSegment(nodes[i].member_documenters[l].package_path),
                 LastSegment(nodes[i].member_documenters[k].package_path))

(***************************************************************************)
(* C6  No two member documenters have the same package_path: not two of    *)
(* the same node, and not two of nodes for different modules.              *)
(***************************************************************************)
C6_MemberPathsUnique ==
  \A i, j \in 1..Len(nodes) :
    (i = j \/ nodes[i].package_path # nodes[j].package_path) =>
      \A k \in 1..Len(nodes[i].member_documenters) :
        \A l \in 1..Len(nodes[j].member_documenters) :
          (i # j \/ k # l) =>
            nodes[i].member_documenters[k].package_path
              # nodes[j].member_documenters[l].package_path

(***************************************************************************)
(* C7  member_documenters_by_section partitions a node's member            *)
(* documenters: each is in exactly one group, the one named by its         *)
(* documentation_section; no group is empty; the groups ascend strictly by *)
(* section name; a group keeps the stored order of its members.  The       *)
(* summary emits the section bullets and the ~ entries in that order.      *)
(***************************************************************************)
C7_SectionsPartitionSortedStable ==
  /\ \A i \in 1..Len(nodes) :
       LET members == nodes[i].member_documenters
           groups == member_documenters_by_section(nodes[i])
       IN  /\ \A k \in 1..Len(groups) : groups[k][2] # <<>>
           /\ \A k, l \in 1..Len(groups) :
                k < l => StrLess(groups[k][1], groups[l][1])
           /\ \A k \in 1..Len(groups) :
                groups[k][2] =
                  SelectSeq(members,
                            LAMBDA d : d.documentation_section = groups[k][1])
           /\ \A m \in 1..Len(members) :
                Cardinality({k \in 1..Len(groups) :
                               groups[k][1] = members[m].documentation_section}) = 1
  /\ root # <<>> =>
       LET shown == SelectSeq(PreOrder(root[1].module_documenters),
                              LAMBDA i : ~is_nominative(nodes[i]))
       IN  SelectSeq(Lines(RootStr(root[1])),
                     LAMBDA line : IsRubric(line) \/ IsBullet(line) \/ IsEntry(line))
           = Flatten([k \in 1..Len(shown) |->
                       <<RubricLine(nodes[shown[k]])>>
                       \o ExpectedMemberLines(nodes[shown[k]])])

\* a summary that shows a node whose first stored member is not of the
\* first section, and whose sections interleave in the stored order
C7_Witness ==
  /\ root # <<>>
  /\ \E k \in 1..Len(Recurse(root[1])) :
       LET members == Recurse(root[1])[k][1].member_documenters
       IN  /\ Len(members) >= 3
           /\ StrLess(members[2].documentation_section,
                      members[1].documentation_section)
           /\ members[3].documentation_section = members[1].documentation_section

(***************************************************************************)
(* C8  A rendered page separates its blocks by exactly one blank line: it  *)
(* never holds two consecutive empty lines and never ends with an empty    *)
(* line, for any children of any documenter class and any members.         *)
(* (Stated for the nodes whose children lie one segment below them.)       *)
(***************************************************************************)
C8_PageHasNoDoubleOrTrailingBlank ==
  \A i \in 1..Len(nodes) :
    LET lines == Lines(ModuleStr(nodes[i]))
    IN  ChildrenBelow(nodes[i]) =>
          /\ lines[Len(lines)] # <<>>
          /\ \A k \in 1..(Len(lines) - 1) :
               ~(lines[k] = <<>> /\ lines[k + 1] = <<>>)

(***************************************************************************)
(* C9  Constructing a node for a package_path that does not resolve to a   *)
(* module fails with the import's own error before any classifier is       *)
(* called, and yields no node: every node there is has a resolved client.  *)
(***************************************************************************)
C9_UnresolvablePathYieldsNoNode ==
  [][ /\ (req' # <<>> /\ req'[1].package_path \notin DOMAIN Modules) =>
           (nodes' = nodes /\ calls' = <<>> /\ err' = ImportError)
      /\ \A i \in 1..Len(nodes') : nodes'[i].client \in DOMAIN Modules
    ]_vars

\* a failed construction after a successful one
C9_Witness ==
  /\ err = ImportError
  /\ req # <<>>
  /\ req[1].package_path \notin DOMAIN Modules
  /\ Len(nodes) >= 1

(***************************************************************************)
(* C10  Every child's package_path is its parent's package_path, a dot,    *)
(* and exactly one more segment; no construction yields a node whose       *)
(* children break this.                                                    *)
(***************************************************************************)
C10_ChildPathExtendsParentByOneSegment ==
  \A i \in 1..Len(nodes) :
    \A k \in 1..Len(nodes[i].module_documenters) :
      ExtendsByOneSegment(nodes[nodes[i].module_documenters[k]].package_path,
                          nodes[i].package_path)

====
